---- MODULE Spec2Model ----
(***************************************************************************)
(* Research-and-synthesis pipeline of the Legal / Marketing agents.        *)
(*                                                                         *)
(* One run of the program is one of several independent entry points       *)
(* (variable `mode`, fixed by Init):                                       *)
(*   "legal"  : LegalAgent.legal_agent                 (src/legal_agent.py)*)
(*   "async"  : MarketingAgent.async_market_research   (marketing_agent.py)*)
(*   "search" : MarketingAgent._search_data_source     (marketing_agent.py)*)
(*   "report" : MarketingAgent.generate_comprehensive_report               *)
(* External services (generation service, CourtListener, GovInfo, SerpAPI) *)
(* are the environment: every answer is drawn from a small set.            *)
(***************************************************************************)
EXTENDS Integers, Sequences, FiniteSets, TLC

VARIABLES
    mode,            \* which entry point this run executes
    serpapi_key,     \* self.serpapi_key is set (os.getenv("SERPAPI_KEY"))
    govinfo_key,     \* self.govinfo_key is set
    pc,              \* LegalAgent.legal_agent: position in the function
    calls,           \* log of external calls issued, in order
    federal_query,   \* get_comprehensive_case_research: the generated query list
    case_research,   \* legal_agent locals (research_data entries)
    regulatory_intel,
    international_considerations,
    risk_matrix,
    compliance_roadmap,
    summary_prompt,  \* the parts interpolated in executive_summary_prompt
    final_analysis,
    report,          \* value returned by legal_agent
    raised,          \* an exception left the entry point
    session,         \* MarketingAgent.session: "none", "open" or "closed"
    resp,            \* the provider's answer to each query of the fan-out
    task,            \* state of each fetch_market_data task
    results,         \* value each task returned
    completed,       \* task ids in the order the tasks completed
    market_data,     \* async_market_research: the list it builds
    source_type,     \* _search_data_source: its source_type argument
    answer,          \* _search_data_source: the provider's answer
    search_result,   \* _search_data_source: the list it returns
    brief_detailed,  \* the brief contains "- Output Format: Detailed Report"
    web,             \* generate_comprehensive_report: the provider's answers
    searches,        \* number of _search_data_source calls made so far
    industry_data,   \* value of identify_industry_and_consultancies
    all_research_data, \* topic -> list, as compiled at lines 866-873
    final_report,    \* value returned by generate_comprehensive_report
    formatted,       \* text returned by marketing_agent(brief)
    now,             \* the wall clock read by datetime.now()
    again,           \* result of applying a function a second time
    content,         \* _calculate_relevance: its snippet and title arguments
    relevance,       \* _calculate_relevance: the value it returns
    response_text,   \* _extract_json_from_response: its argument
    extracted,       \* _extract_json_from_response: the value it returns
    cache_file,      \* marketing2: the pickle file named by self.cache_file
    books_folder,    \* marketing2: the folder of PDF books
    knowledge_base,  \* marketing2: self.knowledge_base
    inits,           \* marketing2: number of MarketingAgent() constructions
    agent_type,      \* StreamingAnalysisUI: the agent_type argument
    worker,          \* StreamingAnalysisUI: position of the analysis thread
    writes,          \* number of attribute writes the analysis thread made
    analysis_complete, \* StreamingAnalysisUI.analysis_complete
    final_result,    \* StreamingAnalysisUI.final_result ("unset": no attribute)
    progress_queue,  \* StreamingAnalysisUI.progress_queue
    shown,           \* progress messages shown by status_text.text, in order
    agent_session,   \* MarketingAgent.session: 0 (None) or a session id
    sessions,        \* state of each aiohttp.ClientSession object
    closer,          \* position of each close_session coroutine
    handed,          \* the values create_session returned, in order
    output,          \* parse_analysis_sections: the lines of its argument
    sections         \* parse_analysis_sections: the dict it returns

keyVars == <<mode, serpapi_key, govinfo_key>>

legalVars == <<federal_query, case_research, regulatory_intel,
               international_considerations, risk_matrix, compliance_roadmap,
               summary_prompt, final_analysis, report>>

asyncVars == <<session, resp, task, results, completed, market_data>>

searchVars == <<source_type, answer, search_result>>

reportVars == <<brief_detailed, web, searches, industry_data,
                all_research_data, final_report>>

fnVars == <<formatted, now, again, content, relevance, response_text,
            extracted>>
coreVars == <<calls, raised, legalVars, asyncVars, searchVars, reportVars,
             fnVars>>
cacheVars == <<cache_file, books_folder, knowledge_base, inits>>
uiVars == <<agent_type, worker, writes, analysis_complete, final_result,
            progress_queue, shown>>
sessVars == <<agent_session, sessions, closer, handed>>
parseVars == <<output, sections>>
extVars == <<cacheVars, uiVars, sessVars, parseVars>>

-----------------------------------------------------------------------------
(* Bounds of the model *)

\* largest number of comma-separated terms in a generated federal query list
MaxTerms == 2
\* largest number of results in one provider answer
MaxOrganic == 1

(* Program constants *)

\* federal_query.split(',')[:5]
FederalQueryCap == 5
\* data.get("results", [])[:5]
FederalResultCap == 5
\* results.get("organic_results", [])[:3]
SerpResultCap == 3
\* for source in sources[:5]
CitationCap == 5

Min(a, b) == IF a < b THEN a ELSE b

Take(s, n) == SubSeq(s, 1, Min(Len(s), n))

RECURSIVE Flatten(_)
Flatten(ss) == IF ss = <<>> THEN <<>> ELSE Head(ss) \o Flatten(Tail(ss))

-----------------------------------------------------------------------------
(* Generation service *)

\* what a chat.completions.create call can do: raise, or answer with a text
GenOutcomes == {"fail", "ok"}

\* the string call_openai_agent returns from its except branch
OpenAIError == [err |-> TRUE, of |-> "OpenAI API Error", echo |-> FALSE]

\* a text produced by the generation service for the call named `purpose`;
\* echo: the text reproduces verbatim the texts interpolated in its prompt
GenText(purpose, echo) == [err |-> FALSE, of |-> purpose, echo |-> echo]

NoText == [err |-> FALSE, of |-> "", echo |-> FALSE]

\* variant: the except branch returns an empty text instead of the marker
call_openai_agent_NoPlaceholder(outcome, purpose, echo) ==
    IF outcome = "fail" THEN NoText ELSE GenText(purpose, echo)

\* lines 17-28
call_openai_agent(outcome, purpose, echo) ==
    IF outcome = "fail" THEN OpenAIError ELSE GenText(purpose, echo)

-----------------------------------------------------------------------------
(* Provider answers (requests.get + response.json()) *)

\* raise  : requests.get or response.json() raises
\* status : the answer has status_code != 200
\* ok     : status 200 and a JSON body listing n results
Responses ==
    {[kind |-> "raise", n |-> 0], [kind |-> "status", n |-> 0]}
        \cup {[kind |-> "ok", n |-> k] : k \in 0..MaxOrganic}

\* never : the provider accepts the request and sends no answer
Never == [kind |-> "never", n |-> 0]

\* what a request can meet; requests.get is called without a timeout argument
\* (legal_agent.py lines 45, 77, 112, 141, 175; marketing_agent.py line 584),
\* so on `never` the call does not return and the statements after it are
\* not reached (field `blocked` of the results below)
Answers == Responses \cup {Never}

\* a CourtListener answer of status 200 listing n results, the last of which
\* has no "absolute_url" member
NoUrl(n) == [kind |-> "nourl", n |-> n]

\* the malformed answer is taken at its longest, MaxOrganic results
FederalAnswers == Answers \cup {NoUrl(MaxOrganic)}

\* one external call: the service, what it was for, the query it carried, how
\* it ended ("-" where no later statement can tell) and the number of results
\* the answer listed
Call(svc, what, q, res, n) ==
    [svc |-> svc, what |-> what, q |-> q, res |-> res, n |-> n]

Item(source, q, k) == [error |-> FALSE, source |-> source, query |-> q, n |-> k]

ErrorItem(msg) == [error |-> TRUE, source |-> msg, query |-> 0, n |-> 0]

IsError(it) == it.error

Errors(s) == {i \in 1..Len(s) : IsError(s[i])}

Evidence(s) == {i \in 1..Len(s) : ~IsError(s[i])}

-----------------------------------------------------------------------------
(* LegalAgent.get_comprehensive_case_research *)

\* federal_query.split(','): g = 0 is the error text of a failed generation
\* call (one piece), g > 0 a list of g terms
SplitQueries(g) == IF g = 0 THEN <<0>> ELSE [i \in 1..g |-> i]

\* variant: every term of the response is searched
FederalQueries_Uncapped(g) == SplitQueries(g)

FederalQueries(g) == Take(SplitQueries(g), FederalQueryCap)

\* the for loop of lines 42-57, from query i on; acc = case_sources so far
RECURSIVE FederalLoop(_, _, _, _, _)
FederalLoop(queries, resps, i, acc, log) ==
    IF i > Len(queries)
    THEN [sources |-> acc, log |-> log, raised |-> FALSE, blocked |-> FALSE]
    ELSE LET r == resps[i]
             log2 == Append(log, Call("courtlistener", "federal",
                                      queries[i], r.kind, r.n))
         IN  IF r.kind = "never"
             THEN [sources |-> acc, log |-> log2, raised |-> FALSE,
                   blocked |-> TRUE]
             ELSE IF r.kind = "raise"
             THEN [sources |-> acc, log |-> log2, raised |-> TRUE,
                   blocked |-> FALSE]
             ELSE IF r.kind = "nourl" /\ r.n <= FederalResultCap
             \* item['absolute_url'] (line 53) raises KeyError on the last
             \* result, after the results before it were appended
             THEN [sources |-> acc \o [k \in 1..(r.n - 1) |->
                                          Item("Federal Courts", queries[i], k)],
                   log |-> log2, raised |-> TRUE, blocked |-> FALSE]
             ELSE IF r.kind = "status"
             THEN FederalLoop(queries, resps, i + 1, acc, log2)
             ELSE FederalLoop(queries, resps, i + 1,
                      acc \o [k \in 1..Min(r.n, FederalResultCap) |->
                                  Item("Federal Courts", queries[i], k)],
                      log2)

\* variant: the except branch swallows the failure without recording it
FederalSearch_Silent(g, resps) ==
    LET log0 == <<Call("openai", "federal_query", 0,
                         IF g = 0 THEN "fail" ELSE "ok", 0)>>
        run == FederalLoop(FederalQueries(g), resps, 1, <<>>, log0)
    IN  [sources |-> run.sources, log |-> run.log, blocked |-> run.blocked]

\* the first try block (lines 35-59)
FederalSearch(g, resps) ==
    LET log0 == <<Call("openai", "federal_query", 0,
                         IF g = 0 THEN "fail" ELSE "ok", 0)>>
        run == FederalLoop(FederalQueries(g), resps, 1, <<>>, log0)
    IN  [sources |-> IF run.raised
                     THEN Append(run.sources, ErrorItem("Federal case search failed"))
                     ELSE run.sources,
         log |-> run.log,
         blocked |-> run.blocked]

\* one SerpAPI search guarded by `if self.serpapi_key` and wrapped in
\* try/except: shared shape of lines 69-89, 128-153 and 167-187
SerpSearch(key, r, source, what, q, failmsg) ==
    IF ~key
    THEN [sources |-> <<>>, log |-> <<>>, blocked |-> FALSE]
    ELSE [sources |->
              IF r.kind = "raise" THEN <<ErrorItem(failmsg)>>
              ELSE IF r.kind \in {"status", "never"} THEN <<>>
              ELSE [k \in 1..Min(r.n, SerpResultCap) |-> Item(source, q, k)],
          log |-> <<Call("serpapi", what, q, r.kind, r.n)>>,
          blocked |-> r.kind = "never"]

\* the second try block (lines 62-89)
StateSearch(key, r) ==
    LET s == SerpSearch(key, r, "State Courts", "state", 1,
                        "State case search failed")
    IN  [sources |-> s.sources,
         log |-> <<Call("openai", "state_query", 0, "-", 0)>> \o s.log,
         blocked |-> s.blocked]

get_comprehensive_case_research(key, g, resps, r) ==
    LET fed == FederalSearch(g, resps)
        st == StateSearch(key, r)
    IN  IF fed.blocked THEN fed
        ELSE [sources |-> fed.sources \o st.sources, log |-> fed.log \o st.log,
              blocked |-> st.blocked]

-----------------------------------------------------------------------------
(* LegalAgent.get_regulatory_intelligence *)

\* Federal Register search (lines 98-124)
GovInfoSearch(gkey, r) ==
    LET log0 == <<Call("openai", "reg_query", 0, "-", 0)>>
    IN  IF ~gkey
        THEN [sources |-> <<>>, log |-> log0, blocked |-> FALSE]
        ELSE [sources |->
                  IF r.kind = "raise"
                  THEN <<ErrorItem("Regulatory search failed")>>
                  ELSE IF r.kind \in {"status", "never"} THEN <<>>
                  ELSE [k \in 1..r.n |-> Item("Federal Register", 1, k)],
              log |-> Append(log0, Call("govinfo", "regulations", 1, r.kind, r.n)),
              blocked |-> r.kind = "never"]

\* Industry compliance search (lines 127-153): the generation call is made
\* only when the key is set
IndustrySearch(key, r) ==
    LET s == SerpSearch(key, r, "Industry Compliance", "industry", 1,
                        "Industry compliance search failed")
    IN  [sources |-> s.sources,
         log |-> (IF key THEN <<Call("openai", "industry_query", 0, "-", 0)>> ELSE <<>>)
                     \o s.log,
         blocked |-> s.blocked]

get_regulatory_intelligence(key, gkey, rg, ri) ==
    LET gov == GovInfoSearch(gkey, rg)
        ind == IndustrySearch(key, ri)
    IN  IF gov.blocked THEN gov
        ELSE [sources |-> gov.sources \o ind.sources, log |-> gov.log \o ind.log,
              blocked |-> ind.blocked]

(* LegalAgent.get_international_considerations *)

get_international_considerations(key, r) ==
    LET s == SerpSearch(key, r, "International Compliance", "international", 1,
                        "International search failed")
    IN  [sources |-> s.sources,
         log |-> <<Call("openai", "intl_query", 0, "-", 0)>> \o s.log,
         blocked |-> s.blocked]

-----------------------------------------------------------------------------
(* LegalAgent.legal_agent: synthesis *)

\* variant: the roadmap is not interpolated
ExecutiveSummaryPrompt_NoRoadmap(risk, roadmap) == <<risk>>

\* the texts interpolated in executive_summary_prompt (lines 270-314)
ExecutiveSummaryPrompt(risk, roadmap) == <<risk, roadmap>>

\* citations block (lines 319-330) over the three topics of research_data
CitationsOf(topic, sources) ==
    IF sources = <<>> THEN <<>>
    ELSE LET top == Take(sources, CitationCap)
         IN  <<[line |-> "header", topic |-> topic, item |-> ErrorItem("")]>>
             \o Flatten([i \in 1..Len(top) |->
                    IF IsError(top[i]) THEN <<>>
                    ELSE <<[line |-> "entry", topic |-> topic, item |-> top[i]]>>])

Citations(cases, regs, intl) ==
    CitationsOf("case_law", cases) \o CitationsOf("regulatory", regs)
        \o CitationsOf("international", intl)

-----------------------------------------------------------------------------
(* Actions of legal_agent, one per statement of lines 251-332 *)

LegalCaseResearch ==
    /\ mode = "legal" /\ pc = "start"
    /\ \E g \in 0..MaxTerms, r \in Answers :
         \E resps \in [1..Len(FederalQueries(g)) -> FederalAnswers] :
            LET res == get_comprehensive_case_research(serpapi_key, g, resps, r)
            IN  /\ federal_query' = g
                /\ calls' = calls \o res.log
                /\ IF res.blocked
                   THEN pc' = "blocked" /\ UNCHANGED case_research
                   ELSE pc' = "case_done" /\ case_research' = res.sources
    /\ UNCHANGED <<keyVars, extVars, fnVars, raised, asyncVars, searchVars, reportVars, regulatory_intel,
                   international_considerations, risk_matrix,
                   compliance_roadmap, summary_prompt, final_analysis, report>>

LegalRegulatory ==
    /\ mode = "legal" /\ pc = "case_done"
    /\ \E rg \in Answers, ri \in Answers :
         LET res == get_regulatory_intelligence(serpapi_key, govinfo_key, rg, ri)
         IN  /\ calls' = calls \o res.log
             /\ IF res.blocked
                THEN pc' = "blocked" /\ UNCHANGED regulatory_intel
                ELSE pc' = "reg_done" /\ regulatory_intel' = res.sources
    /\ UNCHANGED <<keyVars, extVars, fnVars, raised, asyncVars, searchVars, reportVars, federal_query, case_research,
                   international_considerations, risk_matrix,
                   compliance_roadmap, summary_prompt, final_analysis, report>>

LegalInternational ==
    /\ mode = "legal" /\ pc = "reg_done"
    /\ \E r \in Answers :
         LET res == get_international_considerations(serpapi_key, r)
         IN  /\ calls' = calls \o res.log
             /\ IF res.blocked
                THEN pc' = "blocked" /\ UNCHANGED international_considerations
                ELSE /\ pc' = "research_done"
                     /\ international_considerations' = res.sources
    /\ UNCHANGED <<keyVars, extVars, fnVars, raised, asyncVars, searchVars, reportVars, federal_query, case_research,
                   regulatory_intel, risk_matrix, compliance_roadmap,
                   summary_prompt, final_analysis, report>>

\* generate_risk_matrix (lines 191-216, called at 264)
LegalRiskMatrix ==
    /\ mode = "legal" /\ pc = "research_done"
    /\ \E o \in GenOutcomes :
         /\ risk_matrix' = call_openai_agent(o, "risk_matrix", FALSE)
         /\ calls' = Append(calls, Call("openai", "risk_matrix", 0, o, 0))
    /\ pc' = "risk_done"
    /\ UNCHANGED <<keyVars, extVars, fnVars, raised, asyncVars, searchVars, reportVars, federal_query, case_research,
                   regulatory_intel, international_considerations,
                   compliance_roadmap, summary_prompt, final_analysis, report>>

\* generate_compliance_roadmap (lines 218-243, called at 267)
LegalRoadmap ==
    /\ mode = "legal" /\ pc = "risk_done"
    /\ \E o \in GenOutcomes :
         /\ compliance_roadmap' = call_openai_agent(o, "compliance_roadmap", FALSE)
         /\ calls' = Append(calls, Call("openai", "compliance_roadmap", 0, o, 0))
    /\ pc' = "roadmap_done"
    /\ UNCHANGED <<keyVars, extVars, fnVars, raised, asyncVars, searchVars, reportVars, federal_query, case_research,
                   regulatory_intel, international_considerations,
                   risk_matrix, summary_prompt, final_analysis, report>>

\* executive summary call (lines 270-316)
LegalSummary ==
    /\ mode = "legal" /\ pc = "roadmap_done"
    /\ summary_prompt' = ExecutiveSummaryPrompt(risk_matrix, compliance_roadmap)
    /\ \E o \in GenOutcomes, echo \in BOOLEAN :
         /\ final_analysis' = call_openai_agent(o, "executive_summary", echo)
         /\ calls' = Append(calls, Call("openai", "executive_summary", 0, o, 0))
    /\ pc' = "summary_done"
    /\ UNCHANGED <<keyVars, extVars, fnVars, raised, asyncVars, searchVars, reportVars, federal_query, case_research,
                   regulatory_intel, international_considerations,
                   risk_matrix, compliance_roadmap, report>>

\* citations and return (lines 318-332)
LegalReturn ==
    /\ mode = "legal" /\ pc = "summary_done"
    /\ report' = [narrative |-> final_analysis,
                  citations |-> Citations(case_research, regulatory_intel,
                                          international_considerations)]
    /\ pc' = "returned"
    /\ UNCHANGED <<keyVars, extVars, fnVars, raised, asyncVars, searchVars, reportVars, calls, federal_query,
                   case_research,
                   regulatory_intel, international_considerations,
                   risk_matrix, compliance_roadmap, summary_prompt,
                   final_analysis>>

-----------------------------------------------------------------------------
(* The citations block of legal_agent (lines 318-332) on research of its own *)

\* largest number of federal queries and of results per answer in the
\* research the block is applied to
CiteTerms == 2
CiteOrganic == 3
\* largest value of the wall clock
MaxClock == 1

CiteAnswers ==
    {[kind |-> "raise", n |-> 0]} \cup {[kind |-> "ok", n |-> k] : k \in 0..CiteOrganic}

\* the case_law lists get_comprehensive_case_research can return
CiteInputs ==
    UNION {{get_comprehensive_case_research(TRUE, g, resps, r).sources :
               resps \in [1..g -> CiteAnswers], r \in CiteAnswers} :
           g \in 1..CiteTerms}

\* datetime.now() (legal_agent.py line 260, marketing_agent.py line 974)
\* returns a later value each time it is read
Tick ==
    /\ \/ mode = "citations" /\ pc \in {"start", "returned"}
       \/ mode = "report" /\ pc \in {"regulatory_done", "returned", "formatted"}
    /\ now < MaxClock
    /\ now' = now + 1
    /\ UNCHANGED <<keyVars, extVars, pc, calls, raised, legalVars, asyncVars,
                   searchVars, reportVars, formatted, again, content,
                   relevance, response_text, extracted>>

\* lines 318-332
CiteCall ==
    /\ mode = "citations" /\ pc = "start"
    /\ report' = [narrative |-> final_analysis,
                  citations |-> Citations(case_research, regulatory_intel,
                                          international_considerations)]
    /\ pc' = "returned"
    /\ UNCHANGED <<keyVars, extVars, fnVars, calls, raised, asyncVars, searchVars,
                   reportVars, federal_query, case_research, regulatory_intel,
                   international_considerations, risk_matrix,
                   compliance_roadmap, summary_prompt, final_analysis>>

\* lines 318-332 once more, on the same final_analysis and research_data
CiteAgain ==
    /\ mode = "citations" /\ pc = "returned"
    /\ again' = [narrative |-> final_analysis,
                 citations |-> Citations(case_research, regulatory_intel,
                                         international_considerations)]
    /\ pc' = "again"
    /\ UNCHANGED <<keyVars, extVars, calls, raised, legalVars, asyncVars, searchVars,
                   reportVars, formatted, now, content, relevance,
                   response_text, extracted>>

-----------------------------------------------------------------------------
(* MarketingAgent.async_market_research and fetch_market_data *)

\* the three templated queries of lines 191-195
NumQueries == 3
\* market_data.extend(result[:2])
TopPerQuery == 2

\* variant: one query more than the three templates
Queries_OneMore == 1..(NumQueries + 1)

Queries == 1..NumQueries

\* self._calculate_relevance_optimized(snippet, title), line 234: the class
\* defines no such method, so evaluating the call raises AttributeError
calculate_relevance_optimized(q, k) == [raised |-> TRUE, score |-> 0]

\* the for loop of lines 231-243 from result k on; acc = results so far
RECURSIVE FetchLoop(_, _, _, _)
FetchLoop(q, n, k, acc) ==
    IF k > n THEN [results |-> acc, raised |-> FALSE]
    ELSE LET rel == calculate_relevance_optimized(q, k)
         IN  IF rel.raised THEN [results |-> acc, raised |-> TRUE]
             ELSE FetchLoop(q, n, k + 1,
                      IF rel.score > 3
                      THEN Append(acc, [error |-> FALSE,
                                        source |-> "Market Research",
                                        query |-> q, n |-> k,
                                        relevance_score |-> rel.score])
                      ELSE acc)

\* fetch_market_data once the provider has answered r (lines 226-250); the
\* session carries ClientTimeout(total=20) (line 94), so a request that is
\* never answered raises asyncio.TimeoutError inside the try block
fetch_market_data(q, r) ==
    IF r.kind \in {"raise", "never"}
    THEN <<ErrorItem("Market data fetch failed: request")>>
    ELSE IF r.kind = "status" THEN <<>>
    ELSE LET run == FetchLoop(q, r.n, 1, <<>>)
         IN  IF run.raised
             THEN <<ErrorItem("Market data fetch failed: AttributeError")>>
             ELSE run.results

\* session.get(url, params=params) with "api_key": None: the client library
\* rejects a None parameter value with TypeError before anything is sent
fetch_market_data_NoKey == <<ErrorItem("Market data fetch failed: TypeError")>>

\* create_session, lines 91-96
create_session(sess) == IF sess = "none" THEN "open" ELSE sess

\* close_session, lines 98-102 (no statement of the class calls it)
close_session(sess) == IF sess = "open" THEN "none" ELSE sess

\* variant: results in the order the tasks completed
GatherResults_AsCompleted(res, order) == [k \in 1..Len(order) |-> res[order[k]]]

\* asyncio.gather(*tasks, return_exceptions=True), line 202: the results come
\* in the order of the awaitables, whatever the order of completion
GatherResults(res, order) == [i \in Queries |-> res[i]]

\* lines 204-206
CollectMarketData(gathered) ==
    Flatten([i \in 1..Len(gathered) |-> Take(gathered[i], TopPerQuery)])

\* lines 182-195: industry_ok = FALSE is an industry_data on which lines
\* 185-186 raise (keywords that are not strings), handled at 208-209
AsyncStart ==
    /\ mode = "async" /\ pc = "start"
    /\ \E industry_ok \in BOOLEAN :
         IF industry_ok
         THEN /\ session' = create_session(session)
              /\ pc' = "gathering"
              /\ UNCHANGED market_data
         ELSE /\ market_data' = <<ErrorItem("Market research failed")>>
              /\ pc' = "returned"
              /\ UNCHANGED session
    /\ UNCHANGED <<keyVars, extVars, fnVars, calls, raised, legalVars, searchVars, reportVars, resp, task, results,
                   completed>>

\* task q runs up to its first suspension: the request is in flight
FetchStart(q) ==
    /\ mode = "async" /\ pc = "gathering" /\ task[q] = "new"
    /\ IF serpapi_key
       THEN /\ task' = [task EXCEPT ![q] = "inflight"]
            /\ calls' = Append(calls, Call("serpapi", "market", q, "-", 0))
            /\ UNCHANGED <<results, completed>>
       ELSE /\ task' = [task EXCEPT ![q] = "done"]
            /\ results' = [results EXCEPT ![q] = fetch_market_data_NoKey]
            /\ completed' = Append(completed, q)
            /\ UNCHANGED calls
    /\ UNCHANGED <<keyVars, extVars, fnVars, pc, raised, legalVars, searchVars, reportVars, session, resp, market_data>>

\* variant: the task extends the shared list itself when its answer arrives
FetchComplete_Shared(q) ==
    /\ mode = "async" /\ pc = "gathering" /\ task[q] = "inflight"
    /\ task' = [task EXCEPT ![q] = "done"]
    /\ results' = [results EXCEPT ![q] = fetch_market_data(q, resp[q])]
    /\ completed' = Append(completed, q)
    /\ market_data' = market_data \o Take(results'[q], TopPerQuery)
    /\ UNCHANGED <<keyVars, extVars, fnVars, pc, calls, raised, legalVars,
                   searchVars, reportVars, session, resp>>

\* the provider's answer to task q arrives and the task runs to its return
FetchComplete(q) ==
    /\ mode = "async" /\ pc = "gathering" /\ task[q] = "inflight"
    /\ task' = [task EXCEPT ![q] = "done"]
    /\ results' = [results EXCEPT ![q] = fetch_market_data(q, resp[q])]
    /\ completed' = Append(completed, q)
    /\ UNCHANGED <<keyVars, extVars, fnVars, pc, calls, raised, legalVars, searchVars, reportVars, session, resp,
                   market_data>>

\* gather returns once every task is done; lines 204-211
AsyncReturn ==
    /\ mode = "async" /\ pc = "gathering"
    /\ \A q \in Queries : task[q] = "done"
    /\ market_data' = market_data \o
                          CollectMarketData(GatherResults(results, completed))
    /\ pc' = "returned"
    /\ UNCHANGED <<keyVars, extVars, fnVars, calls, raised, legalVars, searchVars, reportVars, session, resp, task,
                   results, completed>>

-----------------------------------------------------------------------------
(* MarketingAgent._calculate_relevance and _search_data_source *)

\* largest number of organic results in one answer to _search_data_source
MaxItems == 2

\* lines 627-629, lower-cased as at lines 636, 640, 644
HighValue == {"billion", "trillion", "market size", "tam", "sam", "som",
              "addressable market"}
MediumValue == {"million", "growth rate", "cagr", "forecast", "projected",
                "market share"}
LowValue == {"revenue", "industry", "analysis", "report", "research", "study"}

\* source_weights (lines 648-657) and the default of line 659, in tenths
Weight10(src) ==
    CASE src \in {"SEC Filings", "SEC Filings Analysis"} -> 19
      [] src \in {"Gartner", "Forrester"} -> 18
      [] src \in {"McKinsey", "BCG", "Bain"} -> 17
      [] src \in {"IDC", "IQVIA"} -> 16
      [] src \in {"Deloitte", "PwC", "Accenture", "Wood Mackenzie",
                  "IHS Markit"} -> 15
      [] src \in {"Frost & Sullivan", "Oliver Wyman", "Strategy&",
                  "CB Insights"} -> 14
      [] src \in {"Grand View Research", "Roland Berger", "Euromonitor",
                  "Mintel"} -> 13
      [] OTHER -> 10

\* one organic result: the indicators its lower-cased snippet and title
\* contain, whether a year 2023-2025 occurs in them, and bad = its snippet is
\* null (snippet + " " + title raises TypeError at line 633)
Result(id, words, recent, bad) ==
    [id |-> id, words |-> words, recent |-> recent, bad |-> bad]

Strong == Result(1, {"billion", "market size", "cagr"}, TRUE, FALSE)
Edge == Result(2, {"forecast", "report"}, TRUE, FALSE)
Low == Result(3, {"industry", "report", "analysis"}, FALSE, FALSE)
Broken == Result(4, {}, FALSE, TRUE)

Results == {Strong, Edge, Low, Broken}

\* variant: the bonus for recent content is added before the weighting
calculate_relevance_BonusWeighted(it, src) ==
    LET base_score == 3 * Cardinality(it.words \cap HighValue)
                        + 2 * Cardinality(it.words \cap MediumValue)
                        + Cardinality(it.words \cap LowValue)
    IN  ((base_score + (IF it.recent THEN 1 ELSE 0)) * Weight10(src)) \div 10

\* lines 624-666
calculate_relevance(it, src) ==
    LET base_score == 3 * Cardinality(it.words \cap HighValue)
                        + 2 * Cardinality(it.words \cap MediumValue)
                        + Cardinality(it.words \cap LowValue)
        final_score == (base_score * Weight10(src)) \div 10
    IN  IF it.recent THEN final_score + 1 ELSE final_score

\* largest number of indicators of each tier present in a scored text
MaxIndicators == 2

\* the indicators the scored texts are made of, the first MaxIndicators of
\* each tier in these orders
HighOrder == <<"billion", "market size", "trillion", "tam", "sam", "som",
               "addressable market">>
MediumOrder == <<"projected", "cagr", "million", "growth rate", "forecast",
                 "market share">>
LowOrder == <<"industry", "report", "revenue", "analysis", "research", "study">>

FirstOf(order) == {order[i] : i \in 1..Min(MaxIndicators, Len(order))}

\* the (snippet, title) pairs _calculate_relevance is applied to, up to the
\* indicators and the year they contain
ScoreInputs ==
    {Result(0, w, rc, FALSE) :
        w \in SUBSET (FirstOf(HighOrder) \cup FirstOf(MediumOrder)
                          \cup FirstOf(LowOrder)),
        rc \in BOOLEAN}

\* its source_type arguments: providers of each weight and unlisted names
ScoreSources == {"SEC Filings", "McKinsey", "Grand View Research", "Unknown",
                 "Report", "Industry Report 2024"}

\* relevance_score = self._calculate_relevance(snippet, source_type, title)
ScoreCall ==
    /\ mode = "score" /\ pc = "start"
    /\ relevance' = calculate_relevance(content, source_type)
    /\ pc' = "returned"
    /\ UNCHANGED <<keyVars, extVars, calls, raised, legalVars, asyncVars, searchVars,
                   reportVars, formatted, now, again, content, response_text,
                   extracted>>

\* the same call once more
ScoreAgain ==
    /\ mode = "score" /\ pc = "returned"
    /\ again' = calculate_relevance(content, source_type)
    /\ pc' = "again"
    /\ UNCHANGED <<keyVars, extVars, calls, raised, legalVars, asyncVars, searchVars,
                   reportVars, formatted, now, content, relevance,
                   response_text, extracted>>

\* score above which a result is kept (lines 236 and 595)
Threshold == 3
\* relevance_score of a featured answer (line 614)
FeaturedScore == 10

Scored(source, q, id, score) ==
    [error |-> FALSE, source |-> source, query |-> q, n |-> id,
     relevance_score |-> score]

SeqsUpTo(S, n) == UNION {[1..k -> S] : k \in 0..n}

\* answers of the web-search provider to _search_data_source: items are the
\* organic_results, box = the body has an "answer_box"
SearchResponses ==
    {[kind |-> "raise", items |-> <<>>, box |-> FALSE],
     [kind |-> "status", items |-> <<>>, box |-> FALSE],
     [kind |-> "never", items |-> <<>>, box |-> FALSE]}
        \cup {[kind |-> "ok", items |-> its, box |-> b] :
                 its \in SeqsUpTo(Results, MaxItems), b \in BOOLEAN}

\* variant: a result scoring exactly the threshold is kept
RECURSIVE SearchLoop_KeepsThreshold(_, _, _, _, _)
SearchLoop_KeepsThreshold(items, src, q, k, acc) ==
    IF k > Len(items) THEN [results |-> acc, raised |-> FALSE]
    ELSE IF items[k].bad THEN [results |-> acc, raised |-> TRUE]
    ELSE LET s == calculate_relevance(items[k], src)
         IN  SearchLoop_KeepsThreshold(items, src, q, k + 1,
                 IF s >= Threshold
                 THEN Append(acc, Scored(src, q, items[k].id, s))
                 ELSE acc)

\* the for loop of lines 588-604 from result k on
RECURSIVE SearchLoop(_, _, _, _, _)
SearchLoop(items, src, q, k, acc) ==
    IF k > Len(items) THEN [results |-> acc, raised |-> FALSE]
    ELSE IF items[k].bad THEN [results |-> acc, raised |-> TRUE]
    ELSE LET score == calculate_relevance(items[k], src)
         IN  SearchLoop(items, src, q, k + 1,
                 IF score > Threshold
                 THEN Append(acc, Scored(src, q, items[k].id, score))
                 ELSE acc)

SearchFailed(src) == ErrorItem("search failed")

\* variant: the except branch discards the failure
search_data_source_Silent(q, src, r) ==
    IF r.kind \in {"raise", "status"} THEN <<>>
    ELSE SearchLoop(r.items, src, q, 1, <<>>).results

\* _search_data_source(query, source_type) when the provider answers r
\* (lines 570-622); requests.get (line 584) has no timeout, so with
\* r.kind = "never" the call does not return: its callers test for it
search_data_source(q, src, r) ==
    IF r.kind = "raise" THEN <<SearchFailed(src)>>
    ELSE IF r.kind = "status" THEN <<>>
    ELSE LET run == SearchLoop(r.items, src, q, 1, <<>>)
         IN  IF run.raised THEN Append(run.results, SearchFailed(src))
             ELSE IF r.box
             THEN Append(run.results, Scored("Featured", q, 0, FeaturedScore))
             ELSE run.results

SourceTypes == {"McKinsey", "Gartner", "Industry Research"}

SearchCall ==
    /\ mode = "search" /\ pc = "start"
    /\ calls' = Append(calls, Call("serpapi", "search", 1, answer.kind,
                                   Len(answer.items)))
    /\ IF answer.kind = "never"
       THEN pc' = "blocked" /\ UNCHANGED search_result
       ELSE /\ pc' = "returned"
            /\ search_result' = search_data_source(1, source_type, answer)
    /\ UNCHANGED <<keyVars, extVars, fnVars, raised, legalVars, asyncVars, reportVars,
                   source_type, answer>>

-----------------------------------------------------------------------------
(* MarketingAgent.generate_comprehensive_report *)

\* length of the provider's answer script: the c-th search call of a run is
\* answered by entry ((c - 1) % ScriptLen) + 1
ScriptLen == 2
\* largest number of companies found in the SEC data
MaxCompanies == 1

\* queries per consultancy (lines 520-525) and broader queries (532-536)
QueriesPerConsultancy == 4
BroaderQueries == 3
\* lines 724-731, 752-763 and 769-775, 795-804 and 810-814, 835-844
CompetitiveQueries == 6
TrendQueries == 10
ConsultancyTrendQueries == 5
FundingQueries == 8
SpecializedFundingQueries == 3
RegulatoryQueries == 8
\* relevance_score of an SEC insight (line 561)
SecScore == 9

ReportResponses ==
    {r \in SearchResponses :
        /\ Len(r.items) <= 1
        /\ \A i \in 1..Len(r.items) : r.items[i] \in {Strong, Edge}
        /\ r.box => r.items # <<>>}

Script(c) == web[((c - 1) % ScriptLen) + 1]

\* what the generation service answers to industry_prompt
IndustryAnswers == {"fail", "no_json", "bad_json", "technology", "other",
                    "no_primary", "bad_keywords"}

Fallback == [primary |-> "technology", keywords |-> "ok"]

\* lines 133-157: primary = "missing" is a JSON object without
\* "primary_industry", keywords = "bad" a keyword list holding non-strings
identify_industry_and_consultancies(a) ==
    CASE a \in {"fail", "no_json", "bad_json"} -> Fallback
      [] a = "technology" -> [primary |-> "technology", keywords |-> "ok"]
      [] a = "other" -> [primary |-> "other", keywords |-> "ok"]
      [] a = "no_primary" -> [primary |-> "missing", keywords |-> "ok"]
      [] a = "bad_keywords" -> [primary |-> "technology", keywords |-> "bad"]

\* lines 159-178, in one of the orders list(set) can give; the set for
\* "technology" (line 28) joined with the six general ones (line 176)
get_industry_specific_consultancies(ind) ==
    (IF ind.primary = "technology"
     THEN <<"Gartner", "Forrester", "IDC", "McKinsey Digital", "Deloitte Tech">>
     ELSE <<>>)
        \o <<"McKinsey", "BCG", "Bain", "Deloitte", "PwC", "Accenture">>

\* one of the n search calls made after c0 calls is never answered
HangsIn(c0, n) == \E i \in 1..n : Script(c0 + i).kind = "never"

\* n successive _search_data_source calls after c0 calls were made, call i
\* with source type src[i], keeping the first `keep` items of each
SearchMany(n, src, c0, keep) ==
    Flatten([i \in 1..n |->
                Take(search_data_source(c0 + i, src[i], Script(c0 + i)), keep)])

\* the try block of lines 508-542
MarketResearch(key, ind) ==
    IF ~key THEN [data |-> <<>>, n |-> 0, blocked |-> FALSE]
    ELSE IF ind.keywords = "bad"
    THEN [data |-> <<ErrorItem("Market research failed")>>, n |-> 0,
          blocked |-> FALSE]
    ELSE IF HangsIn(0, Len(get_industry_specific_consultancies(ind))
                           * QueriesPerConsultancy + BroaderQueries)
    THEN [data |-> <<>>, n |-> 0, blocked |-> TRUE]
    ELSE LET cs == get_industry_specific_consultancies(ind)
             nc == Len(cs) * QueriesPerConsultancy
             first == SearchMany(nc,
                          [i \in 1..nc |-> cs[((i - 1) \div QueriesPerConsultancy) + 1]],
                          0, TopPerQuery)
             broad == SearchMany(BroaderQueries,
                          [i \in 1..BroaderQueries |-> "Industry Research"],
                          nc, MaxItems + 1)
         IN  [data |-> first \o broad, n |-> nc + BroaderQueries,
              blocked |-> FALSE]

\* the try block of lines 546-566: ncomp companies were found in the SEC
\* data, filings = one of them has recent filings
SecAnalysis(ind, ncomp, filings) ==
    IF ncomp = 0 THEN <<>>
    ELSE IF filings /\ ind.keywords = "bad"
    THEN <<ErrorItem("SEC analysis failed")>>
    ELSE [k \in 1..ncomp |-> Scored("SEC Filings Analysis", 0, k, SecScore)]

\* the shared shape of lines 705-739, 741-783, 785-822 and 824-852:
\* ' '.join(industry_keywords) outside the try block, then n searches
TopicSearch(key, ind, n, src, c0) ==
    IF ind.keywords = "bad"
    THEN [data |-> <<>>, n |-> 0, raised |-> TRUE, blocked |-> FALSE]
    ELSE IF ~key
    THEN [data |-> <<>>, n |-> 0, raised |-> FALSE, blocked |-> FALSE]
    ELSE IF HangsIn(c0, n)
    THEN [data |-> <<>>, n |-> 0, raised |-> FALSE, blocked |-> TRUE]
    ELSE [data |-> SearchMany(n, src, c0, MaxItems + 1), n |-> n,
          raised |-> FALSE, blocked |-> FALSE]

Topics == {"market_analysis", "competitive_intelligence", "macro_trends",
           "funding_analysis", "regulatory_analysis"}

NoResearch == [t \in Topics |-> <<>>]

\* _generate_data_source_summary (lines 991-1028): the items that have a
\* "source" member (error items have none), by topic and position; of its
\* five lists the two whose tests read modelled members
generate_data_source_summary(research) ==
    LET sourced == UNION {{<<t, i>> : i \in Evidence(research[t])} :
                          t \in Topics}
    IN  [high_credibility_sources |->
             {e \in sourced : research[e[1]][e[2]].relevance_score >= 8},
         sec_filing_sources |->
             {e \in sourced :
                 research[e[1]][e[2]].source = "SEC Filings Analysis"}]

NoFinalReport == [executive_summary |-> NoText,
                  comprehensive_analysis |-> NoText,
                  data_source_summary |->
                      [high_credibility_sources |-> {},
                       sec_filing_sources |-> {}],
                  analysis_date |-> 0,
                  industry_classification |-> "",
                  data_sources_analyzed |-> [t \in Topics |-> 0],
                  total_sources |-> 0]

NA == [err |-> FALSE, of |-> "NA", echo |-> FALSE]

reportFrame == <<keyVars, extVars, fnVars, calls, legalVars, asyncVars, searchVars,
                 brief_detailed, web>>

\* line 500
ReportIndustry ==
    /\ mode = "report" /\ pc = "start"
    /\ \E a \in IndustryAnswers :
         industry_data' = identify_industry_and_consultancies(a)
    /\ pc' = "industry_done"
    /\ UNCHANGED <<reportFrame, raised, searches, all_research_data,
                   final_report>>

\* lines 501-568: industry_data['primary_industry'] at line 503 raises
\* KeyError when the key is missing
ReportMarket ==
    /\ mode = "report" /\ pc = "industry_done"
    /\ IF industry_data.primary = "missing"
       THEN /\ raised' = TRUE
            /\ pc' = "raised"
            /\ UNCHANGED <<searches, all_research_data>>
       ELSE \E ncomp \in 0..MaxCompanies, filings \in BOOLEAN :
              LET m == MarketResearch(serpapi_key, industry_data)
              IN  IF m.blocked
                  THEN /\ pc' = "blocked"
                       /\ UNCHANGED <<raised, searches, all_research_data>>
                  ELSE /\ all_research_data' =
                              [all_research_data EXCEPT !["market_analysis"] =
                                  m.data \o SecAnalysis(industry_data, ncomp,
                                                        filings)]
                       /\ searches' = searches + m.n
                       /\ pc' = "market_done"
                       /\ UNCHANGED raised
    /\ UNCHANGED <<reportFrame, industry_data, final_report>>

ReportTopic(from, to, topic, n, src) ==
    /\ mode = "report" /\ pc = from
    /\ LET t == TopicSearch(serpapi_key, industry_data, n, src, searches)
       IN  IF t.raised
           THEN /\ raised' = TRUE
                /\ pc' = "raised"
                /\ UNCHANGED <<searches, all_research_data>>
           ELSE IF t.blocked
           THEN /\ pc' = "blocked"
                /\ UNCHANGED <<raised, searches, all_research_data>>
           ELSE /\ all_research_data' =
                       [all_research_data EXCEPT ![topic] = t.data]
                /\ searches' = searches + t.n
                /\ pc' = to
                /\ UNCHANGED raised
    /\ UNCHANGED <<reportFrame, industry_data, final_report>>

\* lines 860-863
ReportCompetitive ==
    ReportTopic("market_done", "competitive_done", "competitive_intelligence",
                CompetitiveQueries,
                [i \in 1..CompetitiveQueries |-> "Competitive Intelligence"])

ReportTrends ==
    ReportTopic("competitive_done", "trends_done", "macro_trends",
                TrendQueries + ConsultancyTrendQueries,
                [i \in 1..(TrendQueries + ConsultancyTrendQueries) |->
                    IF i <= TrendQueries THEN "Macro Trend Analysis"
                    ELSE "Consultancy Trend Reports"])

ReportFunding ==
    ReportTopic("trends_done", "funding_done", "funding_analysis",
                FundingQueries + SpecializedFundingQueries,
                [i \in 1..(FundingQueries + SpecializedFundingQueries) |->
                    IF i <= FundingQueries THEN "Funding Analysis"
                    ELSE "Investment Data Providers"])

ReportRegulatory ==
    ReportTopic("funding_done", "regulatory_done", "regulatory_analysis",
                RegulatoryQueries,
                [i \in 1..RegulatoryQueries |-> "Regulatory Analysis"])

\* the topics gathered by legal_agent (lines 251-261) and by
\* generate_comprehensive_report (lines 859-873), each with the providers its
\* research function queries: both plans are written in the code
LegalPlan ==
    [t \in {"case_law", "regulatory", "international"} |->
        CASE t = "case_law" -> {"courtlistener", "serpapi"}
          [] t = "regulatory" -> {"govinfo", "serpapi"}
          [] t = "international" -> {"serpapi"}]

MarketingPlan ==
    [t \in Topics |->
        IF t = "market_analysis" THEN {"serpapi", "sec"} ELSE {"serpapi"}]

\* lines 874-989
ReportCompile ==
    /\ mode = "report" /\ pc = "regulatory_done"
    /\ \E o \in GenOutcomes :
         LET what == IF brief_detailed THEN "comprehensive_analysis"
                     ELSE "executive_summary"
             text == call_openai_agent(o, what, FALSE)
             counts == [t \in Topics |-> Len(all_research_data[t])]
         IN  /\ final_report' =
                    [executive_summary |-> IF brief_detailed THEN NA ELSE text,
                     comprehensive_analysis |->
                         IF brief_detailed THEN text ELSE NA,
                     data_source_summary |->
                         generate_data_source_summary(all_research_data),
                     analysis_date |-> now,
                     industry_classification |-> industry_data.primary,
                     data_sources_analyzed |-> counts,
                     total_sources |->
                         counts["market_analysis"]
                             + counts["competitive_intelligence"]
                             + counts["macro_trends"]
                             + counts["funding_analysis"]
                             + counts["regulatory_analysis"]]
             /\ calls' = Append(calls, Call("openai", what, 0, o, 0))
    /\ pc' = "returned"
    /\ UNCHANGED <<keyVars, extVars, fnVars, legalVars, asyncVars, searchVars,
                   brief_detailed, web, raised, searches, industry_data,
                   all_research_data>>

\* variant: the narrative is chosen by the opposite test
FormatReport_OtherNarrative(rd, detailed) ==
    [body |-> IF detailed THEN rd.executive_summary
              ELSE rd.comprehensive_analysis,
     analysis_date |-> rd.analysis_date,
     industry_classification |-> rd.industry_classification,
     total_sources |-> rd.total_sources,
     breakdown |-> rd.data_sources_analyzed,
     high_credibility |-> Cardinality(rd.data_source_summary.high_credibility_sources),
     sec_filing |-> Cardinality(rd.data_source_summary.sec_filing_sources)]

\* variant: the text is stamped with the time of formatting
FormatReport_Restamped(rd, detailed) ==
    [body |-> IF detailed THEN rd.comprehensive_analysis
              ELSE rd.executive_summary,
     analysis_date |-> now,
     industry_classification |-> rd.industry_classification,
     total_sources |-> rd.total_sources,
     breakdown |-> rd.data_sources_analyzed,
     high_credibility |-> Cardinality(rd.data_source_summary.high_credibility_sources),
     sec_filing |-> Cardinality(rd.data_source_summary.sec_filing_sources)]

\* the text marketing_agent builds from report_dict (lines 1048-1103):
\* the narrative, the metadata lines, one line per topic count and the
\* lengths of the summary lists
FormatReport(rd, detailed) ==
    [body |-> IF detailed THEN rd.comprehensive_analysis
              ELSE rd.executive_summary,
     analysis_date |-> rd.analysis_date,
     industry_classification |-> rd.industry_classification,
     total_sources |-> rd.total_sources,
     breakdown |-> rd.data_sources_analyzed,
     high_credibility |-> Cardinality(rd.data_source_summary.high_credibility_sources),
     sec_filing |-> Cardinality(rd.data_source_summary.sec_filing_sources)]

\* marketing_agent(brief), lines 1045-1103, after
\* generate_comprehensive_report has returned
MarketingFormat ==
    /\ mode = "report" /\ pc = "returned"
    /\ formatted' = FormatReport(final_report, brief_detailed)
    /\ pc' = "formatted"
    /\ UNCHANGED <<keyVars, extVars, calls, raised, legalVars, asyncVars, searchVars,
                   reportVars, now, again, content, relevance, response_text,
                   extracted>>

\* lines 1048-1103 once more, on the same report_dict
MarketingFormatAgain ==
    /\ mode = "report" /\ pc = "formatted"
    /\ again' = FormatReport(final_report, brief_detailed)
    /\ pc' = "again"
    /\ UNCHANGED <<keyVars, extVars, calls, raised, legalVars, asyncVars, searchVars,
                   reportVars, formatted, now, content, relevance,
                   response_text, extracted>>

-----------------------------------------------------------------------------
(* MarketingAgent._extract_json_from_response (marketing2.py) *)

\* a response text, by what each parsing attempt of the function meets:
\*   whole  : json.loads(response_text) gives a JSON object, gives another
\*            JSON value (array, number, string, true, false, null), raises
\*            JSONDecodeError ("invalid"), or raises RecursionError on a
\*            text nested too deeply ("deep")
\*   fenced : the text between triple backticks matched by line 190: none,
\*            a JSON object, or not JSON
\*   braces : the text from the first "{" to the next "}" (line 198): none,
\*            a JSON object, or not JSON
ResponseTexts ==
    {t \in [whole : {"object", "value", "invalid", "deep"},
            fenced : {"none", "object", "invalid"},
            braces : {"none", "object", "invalid"}] :
        /\ t.whole # "invalid" => t.fenced = "none"
        /\ t.whole = "object" => t.braces # "none"
        /\ t.fenced # "none" => t.braces # "none"}

\* lines 178-213: only json.JSONDecodeError is caught (lines 183, 194, 202)
extract_json_from_response(t) ==
    IF t.whole = "deep" THEN [raised |-> TRUE, value |-> "none"]
    ELSE IF t.whole # "invalid" THEN [raised |-> FALSE, value |-> t.whole]
    ELSE IF t.fenced = "object" THEN [raised |-> FALSE, value |-> "object"]
    ELSE IF t.braces = "object" THEN [raised |-> FALSE, value |-> "object"]
    ELSE [raised |-> FALSE, value |-> "default"]

\* chunk_analysis = self._extract_json_from_response(response_text), line 262
ExtractCall ==
    /\ mode = "extract" /\ pc = "start"
    /\ LET r == extract_json_from_response(response_text)
       IN  IF r.raised
           THEN raised' = TRUE /\ pc' = "raised" /\ UNCHANGED extracted
           ELSE extracted' = r.value /\ pc' = "returned" /\ UNCHANGED raised
    /\ UNCHANGED <<keyVars, extVars, calls, legalVars, asyncVars, searchVars,
                   reportVars, formatted, now, again, content, relevance,
                   response_text>>

-----------------------------------------------------------------------------
(* get_comprehensive_case_research on long responses and long answers *)

\* largest number of comma-separated terms in the generation response
MaxGenerated == 6
\* largest number of results one CourtListener answer lists
MaxListed == 6

\* what every request of one call meets
FanAnswers ==
    {[kind |-> "raise", n |-> 0], [kind |-> "status", n |-> 0]}
        \cup {[kind |-> "ok", n |-> k] : k \in 0..MaxListed}

\* case_research = self.get_comprehensive_case_research(brief), lines 31-91
FederalFanOut ==
    /\ mode = "federal" /\ pc = "start"
    /\ \E g \in 0..MaxGenerated, r \in FanAnswers :
         LET resps == [i \in 1..Len(FederalQueries(g)) |-> r]
             res == get_comprehensive_case_research(serpapi_key, g, resps, r)
         IN  /\ federal_query' = g
             /\ calls' = calls \o res.log
             /\ case_research' = res.sources
    /\ pc' = "returned"
    /\ UNCHANGED <<keyVars, extVars, fnVars, raised, asyncVars, searchVars,
                   reportVars, regulatory_intel, international_considerations,
                   risk_matrix, compliance_roadmap, summary_prompt,
                   final_analysis, report>>

-----------------------------------------------------------------------------
(* The knowledge cache of the book-based MarketingAgent (marketing2.py) *)

\* number of distinct book filenames
MaxBooks == 2
\* number of MarketingAgent() constructions in one run
MaxInits == 2

Books == 1..MaxBooks

\* a BookKnowledge object (lines 22-32): its filename and processed_at, the
\* construction during which it was generated (0: before the run)
Entry(b, at) == [filename |-> b, processed_at |-> at]

Filenames(kb) == {e.filename : e \in kb}

NoCacheFile == [exists |-> FALSE, readable |-> FALSE, entries |-> {}]

\* the cache file before the run: absent, or a pickle of earlier entries that
\* pickle.load can or cannot read back (a file written while marketing2.py
\* ran as a script names the class __main__.BookKnowledge, which an importing
\* process cannot resolve; a truncated file)
CacheFiles ==
    {NoCacheFile} \cup
    {[exists |-> TRUE, readable |-> r, entries |-> {Entry(b, 0) : b \in S}] :
        S \in SUBSET Books, r \in BOOLEAN}

NoFolder == [exists |-> FALSE, files |-> {}]

Folders == {NoFolder} \cup {[exists |-> TRUE, files |-> S] : S \in SUBSET Books}

\* _load_cache, lines 85-94, on the fresh knowledge_base = [] of line 58
load_cache(file) ==
    IF file.exists /\ file.readable THEN file.entries ELSE {}

\* _save_cache, lines 96-103: opened = FALSE is an open() that raises
save_cache(file, kb, opened) ==
    IF opened THEN [exists |-> TRUE, readable |-> TRUE, entries |-> kb]
    ELSE file

\* new_files of line 336
new_files(folder, kb) == folder.files \ Filenames(kb)

\* MarketingAgent.__init__ up to line 61
CacheLoad ==
    /\ mode = "cache" /\ pc \in {"start", "ready"}
    /\ inits < MaxInits
    /\ inits' = inits + 1
    /\ knowledge_base' = load_cache(cache_file)
    /\ pc' = "loaded"
    /\ UNCHANGED <<keyVars, coreVars, parseVars, sessVars, uiVars, cache_file, books_folder>>

\* _process_new_books, lines 325-382: ok = the new files whose text is
\* extracted and whose _process_book_with_ai call returns (lines 348-378)
ProcessNewBooks ==
    /\ mode = "cache" /\ pc = "loaded"
    /\ IF ~books_folder.exists \/ new_files(books_folder, knowledge_base) = {}
       THEN UNCHANGED <<knowledge_base, cache_file>>
       ELSE \E ok \in SUBSET new_files(books_folder, knowledge_base),
               opened \in BOOLEAN :
                /\ knowledge_base' =
                       knowledge_base \cup {Entry(b, inits) : b \in ok}
                /\ cache_file' = save_cache(cache_file, knowledge_base', opened)
    /\ pc' = "ready"
    /\ UNCHANGED <<keyVars, coreVars, parseVars, sessVars, uiVars, books_folder, inits>>

\* between two constructions a PDF is put into the books folder
PlaceBook(b) ==
    /\ mode = "cache" /\ pc = "ready"
    /\ books_folder.exists /\ b \notin books_folder.files
    /\ books_folder' = [books_folder EXCEPT !.files = @ \cup {b}]
    /\ UNCHANGED <<keyVars, coreVars, parseVars, sessVars, uiVars, pc, cache_file, knowledge_base,
                   inits>>

-----------------------------------------------------------------------------
(* StreamingAnalysisUI (main.py): display_streaming_results runs on the   *)
(* script thread (position pc), run_analysis_thread on a thread of its own *)

\* largest number of update_progress calls during one analysis
MaxMessages == 2

AgentTypes == {"Legal & Compliance", "Marketing & Strategy"}

\* how the try block of run_analysis_thread ends (lines 86-203).  Legal:
\* `from legal_agent import legal_agent_optimized` raises ImportError, the
\* module defines legal_agent only.  Marketing: get_agent() constructs the
\* marketing2 agent, which returns, raises, or waits for a generation call
\* that has no timeout; with an agent the result is the text of lines 100-203
AnalysisOutcomes(type) ==
    IF type = "Legal & Compliance" THEN {"raised"}
    ELSE {"returned", "raised", "hangs"}

\* variant: the flag is set before the result is stored
WorkerWrites_FlagFirst(outcome) == <<"analysis_complete", "final_result">>

\* variant: the except branch stores the message and leaves the flag
WorkerWrites_NoFlagOnError(outcome) ==
    IF outcome = "returned" THEN <<"final_result", "analysis_complete">>
    ELSE <<"final_result">>

\* the attribute writes that end run_analysis_thread, in program order:
\* lines 205-206 after the try body, lines 209-210 in the except branch
WorkerWrites(outcome) == <<"final_result", "analysis_complete">>

\* a queue entry: valid = its progress value is one progress_bar.progress
\* accepts; on any other value line 53 raises
Message(id, valid) == [id |-> id, valid |-> valid]

\* lines 32-46: the containers are made and the analysis thread is started
DisplayStart ==
    /\ mode = "ui" /\ pc = "start"
    /\ worker' = "running"
    /\ pc' = "loop"
    /\ UNCHANGED <<keyVars, coreVars, parseVars, sessVars, cacheVars, agent_type, writes,
                   analysis_complete, final_result, progress_queue, shown>>

\* update_progress (lines 24-26), called while the analysis runs
UpdateProgress ==
    /\ mode = "ui" /\ worker = "running"
    /\ Len(shown) + Len(progress_queue) < MaxMessages
    /\ \E valid \in BOOLEAN :
         progress_queue' =
             Append(progress_queue,
                    Message(Len(shown) + Len(progress_queue) + 1, valid))
    /\ UNCHANGED <<keyVars, coreVars, parseVars, sessVars, cacheVars, pc, agent_type, worker, writes,
                   analysis_complete, final_result, shown>>

\* the try body of run_analysis_thread ends (lines 86-203)
Analysis ==
    /\ mode = "ui" /\ worker = "running"
    /\ \E o \in AnalysisOutcomes(agent_type) : worker' = o
    /\ UNCHANGED <<keyVars, coreVars, parseVars, sessVars, cacheVars, pc, agent_type, writes,
                   analysis_complete, final_result, progress_queue, shown>>

\* the next attribute write of the analysis thread (lines 205-206, 209-210)
WorkerWrite ==
    /\ mode = "ui" /\ worker \in {"returned", "raised"}
    /\ writes < Len(WorkerWrites(worker))
    /\ writes' = writes + 1
    /\ IF WorkerWrites(worker)[writes + 1] = "final_result"
       THEN /\ final_result' = (IF worker = "returned" THEN "result"
                                ELSE "Analysis failed")
            /\ UNCHANGED analysis_complete
       ELSE /\ analysis_complete' = TRUE
            /\ UNCHANGED final_result
    /\ UNCHANGED <<keyVars, coreVars, parseVars, sessVars, cacheVars, pc, agent_type, worker,
                   progress_queue, shown>>

\* run_analysis_thread returns and the thread ends
WorkerExit ==
    /\ mode = "ui" /\ worker \in {"returned", "raised"}
    /\ writes = Len(WorkerWrites(worker))
    /\ worker' = "exited"
    /\ UNCHANGED <<keyVars, coreVars, parseVars, sessVars, cacheVars, pc, agent_type, writes,
                   analysis_complete, final_result, progress_queue, shown>>

\* one test of the while condition and one pass through the loop body
\* (lines 47-71); nothing puts to results_queue, so lines 56-65 are skipped
DisplayPoll ==
    /\ mode = "ui" /\ pc = "loop"
    /\ IF analysis_complete
       THEN pc' = "join" /\ UNCHANGED <<progress_queue, shown>>
       ELSE IF progress_queue = <<>>
       THEN UNCHANGED <<pc, progress_queue, shown>>
       ELSE /\ progress_queue' = Tail(progress_queue)
            /\ shown' = Append(shown, Head(progress_queue).id)
            /\ pc' = (IF Head(progress_queue).valid THEN "loop" ELSE "join")
    /\ UNCHANGED <<keyVars, coreVars, parseVars, sessVars, cacheVars, agent_type, worker, writes,
                   analysis_complete, final_result>>

\* analysis_thread.join(), line 74
DisplayJoin ==
    /\ mode = "ui" /\ pc = "join"
    /\ worker = "exited"
    /\ pc' = "joined"
    /\ UNCHANGED <<keyVars, coreVars, parseVars, sessVars, cacheVars, uiVars>>

\* lines 77-78
DisplayClear ==
    /\ mode = "ui" /\ pc = "joined"
    /\ pc' = "cleared"
    /\ UNCHANGED <<keyVars, coreVars, parseVars, sessVars, cacheVars, uiVars>>

\* lines 81-82: display_final_results runs if the attribute exists
DisplayFinal ==
    /\ mode = "ui" /\ pc = "cleared"
    /\ pc' = (IF final_result # "unset" THEN "final_shown" ELSE "done")
    /\ UNCHANGED <<keyVars, coreVars, parseVars, sessVars, cacheVars, uiVars>>

-----------------------------------------------------------------------------
(* MarketingAgent.create_session and close_session as coroutines of one   *)
(* event loop: a coroutine runs alone from one await to the next          *)

\* number of ClientSession objects that can be constructed
MaxSessions == 3
\* number of close_session calls
MaxClosers == 2
\* number of create_session calls
MaxCreates == 3

SessionIds == 1..MaxSessions

Closers == 1..MaxClosers

Idle == [at |-> "idle", on |-> 0]

\* the ClientSession constructed next
Fresh == CHOOSE i \in SessionIds :
             /\ sessions[i] = "unmade"
             /\ \A j \in SessionIds : sessions[j] = "unmade" => i <= j

\* create_session, lines 91-96: it has no await, so it runs in one piece
CreateSession ==
    /\ mode = "session"
    /\ Len(handed) < MaxCreates
    /\ IF agent_session = 0
       THEN /\ \E i \in SessionIds : sessions[i] = "unmade"
            /\ sessions' = [sessions EXCEPT ![Fresh] = "open"]
            /\ agent_session' = Fresh
            /\ handed' = Append(handed, [id |-> Fresh, state |-> "open"])
       ELSE /\ handed' = Append(handed, [id |-> agent_session,
                                         state |-> sessions[agent_session]])
            /\ UNCHANGED <<agent_session, sessions>>
    /\ UNCHANGED <<keyVars, coreVars, parseVars, cacheVars, uiVars, pc, closer>>

\* close_session up to its await (lines 100-101): session.close() is started
CloseBegin(c) ==
    /\ mode = "session" /\ closer[c].at = "idle"
    /\ IF agent_session = 0
       THEN /\ closer' = [closer EXCEPT ![c] = [at |-> "done", on |-> 0]]
            /\ UNCHANGED sessions
       ELSE /\ closer' = [closer EXCEPT ![c] = [at |-> "await",
                                                 on |-> agent_session]]
            /\ sessions' = [sessions EXCEPT ![agent_session] =
                                IF @ = "open" THEN "closing" ELSE @]
    /\ UNCHANGED <<keyVars, coreVars, parseVars, cacheVars, uiVars, pc, agent_session,
                   handed>>

\* close_session from its await on (lines 101-102)
CloseEnd(c) ==
    /\ mode = "session" /\ closer[c].at = "await"
    /\ sessions' = [sessions EXCEPT ![closer[c].on] = "closed"]
    /\ agent_session' = 0
    /\ closer' = [closer EXCEPT ![c] = [at |-> "done", on |-> 0]]
    /\ UNCHANGED <<keyVars, coreVars, parseVars, cacheVars, uiVars, pc, handed>>

-----------------------------------------------------------------------------
(* StreamingAnalysisUI.parse_analysis_sections (main.py) *)

\* largest number of lines in the report text
MaxLines == 4

\* line 250
DefaultSection == "Executive Summary"

Titles == {DefaultSection, "Risks"}

\* a line that starts with '##' and carries title t (lines 254, 260)
Header(t) == [header |-> TRUE, title |-> t, line |-> 0]

\* any other line; k tells the lines apart
Plain(k) == [header |-> FALSE, title |-> "", line |-> k]

\* output.split('\n') (line 249): at least one line, the k-th being a header
\* or the plain line k
ReportTexts ==
    UNION {{ls \in [1..n -> {Header(t) : t \in Titles}
                               \cup {Plain(k) : k \in 1..n}] :
               \A k \in 1..n : ~ls[k].header => ls[k].line = k} :
           n \in 1..MaxLines}

\* sections[title] = '\n'.join(content) (lines 257, 267) on a dict kept as
\* the sequence of its items in insertion order: an existing key keeps its
\* place and gets the new value
SetItem(d, title, lines) ==
    IF \E i \in 1..Len(d) : d[i].title = title
    THEN [i \in 1..Len(d) |->
             IF d[i].title = title THEN [title |-> title, content |-> lines]
             ELSE d[i]]
    ELSE Append(d, [title |-> title, content |-> lines])

\* `if current_content:` saves the section (lines 256-257, 266-267)
Save(d, title, lines) == IF lines # <<>> THEN SetItem(d, title, lines) ELSE d

\* the for loop of lines 253-263 from line k on, then lines 265-269
RECURSIVE ParseLoop(_, _, _, _, _)
ParseLoop(ls, k, d, current_section, current_content) ==
    IF k > Len(ls) THEN Save(d, current_section, current_content)
    ELSE IF ls[k].header
    THEN ParseLoop(ls, k + 1, Save(d, current_section, current_content),
                   ls[k].title, <<>>)
    ELSE ParseLoop(ls, k + 1, d, current_section,
                   Append(current_content, ls[k].line))

parse_analysis_sections(ls) == ParseLoop(ls, 1, <<>>, DefaultSection, <<>>)

\* sections = self.parse_analysis_sections(output), line 229
ParseCall ==
    /\ mode = "parse" /\ pc = "start"
    /\ sections' = parse_analysis_sections(output)
    /\ pc' = "returned"
    /\ UNCHANGED <<keyVars, coreVars, cacheVars, uiVars, sessVars, output>>

-----------------------------------------------------------------------------

vars == <<keyVars, pc, calls, raised, legalVars, asyncVars, searchVars,
          reportVars, fnVars, extVars>>

NoReport == [narrative |-> NoText, citations |-> <<>>]

NoAnswer == [kind |-> "status", n |-> 0]

Init ==
    /\ mode \in {"legal", "async", "search", "report", "citations",
               "score", "extract", "cache", "federal",
               "ui", "session", "parse"}
    /\ brief_detailed \in (IF mode = "report" THEN BOOLEAN ELSE {FALSE})
    /\ web \in (IF mode = "report" THEN [1..ScriptLen -> ReportResponses]
                ELSE {<<>>})
    /\ searches = 0
    /\ industry_data = Fallback
    /\ all_research_data = NoResearch
    /\ final_report = NoFinalReport
    /\ serpapi_key \in (IF mode = "search" THEN {TRUE} ELSE BOOLEAN)
    /\ source_type \in (CASE mode = "search" -> SourceTypes
                           [] mode = "score" -> ScoreSources
                           [] OTHER -> {"-"})
    /\ answer \in (IF mode = "search" THEN SearchResponses
                   ELSE {[kind |-> "status", items |-> <<>>, box |-> FALSE]})
    /\ search_result = <<>>
    /\ govinfo_key \in (IF mode = "legal" THEN BOOLEAN ELSE {FALSE})
    /\ resp \in (IF mode = "async" THEN [Queries -> Answers]
                 ELSE {[q \in Queries |-> NoAnswer]})
    /\ pc = "start"
    /\ raised = FALSE
    /\ session = "none"
    /\ task = [q \in Queries |-> "new"]
    /\ results = [q \in Queries |-> <<>>]
    /\ completed = <<>>
    /\ market_data = <<>>
    /\ calls = <<>>
    /\ federal_query = 0
    /\ case_research \in (IF mode = "citations" THEN CiteInputs ELSE {<<>>})
    /\ regulatory_intel = <<>>
    /\ international_considerations = <<>>
    /\ risk_matrix = NoText
    /\ compliance_roadmap = NoText
    /\ summary_prompt = <<>>
    /\ final_analysis = (IF mode = "citations"
                         THEN GenText("executive_summary", FALSE) ELSE NoText)
    /\ report = NoReport
    /\ formatted = <<>>
    /\ now = 0
    /\ again = <<>>
    /\ content \in (IF mode = "score" THEN ScoreInputs ELSE {<<>>})
    /\ relevance = 0
    /\ response_text \in (IF mode = "extract" THEN ResponseTexts ELSE {<<>>})
    /\ extracted = <<>>
    /\ cache_file \in (IF mode = "cache" THEN CacheFiles ELSE {NoCacheFile})
    /\ books_folder \in (IF mode = "cache" THEN Folders ELSE {NoFolder})
    /\ knowledge_base = {}
    /\ inits = 0
    /\ agent_type \in (IF mode = "ui" THEN AgentTypes ELSE {"-"})
    /\ worker = "idle"
    /\ writes = 0
    /\ analysis_complete = FALSE
    /\ final_result = "unset"
    /\ progress_queue = <<>>
    /\ shown = <<>>
    /\ agent_session = 0
    /\ sessions = [i \in SessionIds |-> "unmade"]
    /\ closer = [c \in Closers |-> Idle]
    /\ handed = <<>>
    /\ output \in (IF mode = "parse" THEN ReportTexts ELSE {<<>>})
    /\ sections = <<>>

Next ==
    \/ LegalCaseResearch
    \/ LegalRegulatory
    \/ LegalInternational
    \/ LegalRiskMatrix
    \/ LegalRoadmap
    \/ LegalSummary
    \/ LegalReturn
    \/ AsyncStart
    \/ \E q \in Queries : FetchStart(q)
    \/ \E q \in Queries : FetchComplete(q)
    \/ AsyncReturn
    \/ SearchCall
    \/ ReportIndustry
    \/ ReportMarket
    \/ ReportCompetitive
    \/ ReportTrends
    \/ ReportFunding
    \/ ReportRegulatory
    \/ ReportCompile
    \/ MarketingFormat
    \/ MarketingFormatAgain
    \/ Tick
    \/ CiteCall
    \/ CiteAgain
    \/ ScoreCall
    \/ ScoreAgain
    \/ ExtractCall
    \/ FederalFanOut
    \/ CacheLoad
    \/ ProcessNewBooks
    \/ \E b \in Books : PlaceBook(b)
    \/ DisplayStart
    \/ UpdateProgress
    \/ Analysis
    \/ WorkerWrite
    \/ WorkerExit
    \/ DisplayPoll
    \/ DisplayJoin
    \/ DisplayClear
    \/ DisplayFinal
    \/ CreateSession
    \/ \E c \in Closers : CloseBegin(c)
    \/ \E c \in Closers : CloseEnd(c)
    \/ ParseCall

Spec == Init /\ [][Next]_vars

\* StreamingAnalysisUI alone, with both of its threads scheduled: a thread
\* that can take its next step eventually takes it.  No such assumption is
\* made about the analysis call or about callers of update_progress.
UIInit == Init /\ mode = "ui"

UINext ==
    \/ DisplayStart
    \/ UpdateProgress
    \/ Analysis
    \/ WorkerWrite
    \/ WorkerExit
    \/ DisplayPoll
    \/ DisplayJoin
    \/ DisplayClear
    \/ DisplayFinal

UIFairness ==
    /\ WF_vars(WorkerWrite) /\ WF_vars(WorkerExit)
    /\ WF_vars(DisplayPoll) /\ WF_vars(DisplayJoin)
    /\ WF_vars(DisplayClear) /\ WF_vars(DisplayFinal)

UISpec == UIInit /\ [][UINext]_vars /\ UIFairness

-----------------------------------------------------------------------------
(* Properties of LegalAgent *)

CallsOf(what) == {i \in 1..Len(calls) : calls[i].what = what}

CallsTo(svc) == {i \in 1..Len(calls) : calls[i].svc = svc}

StageNames == {"risk_matrix", "compliance_roadmap", "executive_summary"}

StageCalls == {i \in 1..Len(calls) : calls[i].what \in StageNames}

ResearchCalls == (1..Len(calls)) \ StageCalls

ResearchReturned ==
    mode = "legal" /\ pc \notin {"start", "case_done", "reg_done", "blocked"}

\* C2: in get_comprehensive_case_research a failed federal provider call is
\* recorded as an error item and cancels nothing: every federal query (up to
\* the cap) and the state-court search are still issued, and the items
\* collected before the failure are kept.
C2_SiblingRequestsIssued ==
    (mode = "legal" /\ pc \notin {"start", "blocked"}) =>
        /\ (\E i \in CallsOf("federal") : calls[i].res = "raise")
               => \E k \in Errors(case_research) :
                     case_research[k].source = "Federal case search failed"
        /\ \A q \in 1..Len(FederalQueries(federal_query)) :
               \E i \in CallsOf("federal") :
                   calls[i].q = FederalQueries(federal_query)[q]
        /\ serpapi_key => CallsOf("state") # {}
        /\ \A i \in {j \in CallsOf("federal") : calls[j].res = "ok"} :
               \A k \in 1..Min(calls[i].n, FederalResultCap) :
                   \E e \in Evidence(case_research) :
                       case_research[e] = Item("Federal Courts", calls[i].q, k)

\* every provider call of the case-law topic failed (raised or non-200)
CaseLawAllFailed ==
    LET cs == CallsOf("federal") \cup CallsOf("state")
    IN  cs # {} /\ \A i \in cs : calls[i].res \in {"raise", "status"}

CaseLawRaised ==
    {i \in CallsOf("federal") \cup CallsOf("state") : calls[i].res = "raise"}

\* the regulatory and international topics succeeded with results
OthersSucceeded ==
    /\ Errors(regulatory_intel) = {} /\ Evidence(regulatory_intel) # {}
    /\ Errors(international_considerations) = {}
    /\ Evidence(international_considerations) # {}

StageResult(name) ==
    IF CallsOf(name) = {} THEN "-" ELSE calls[CHOOSE i \in CallsOf(name) : TRUE].res

OnlyStage2Failed ==
    /\ mode = "legal" /\ pc = "returned"
    /\ StageResult("risk_matrix") = "ok"
    /\ StageResult("compliance_roadmap") = "fail"
    /\ StageResult("executive_summary") = "ok"

\* the returned text contains t: t is the narrative itself, or the narrative
\* reproduces the texts of its prompt and t is one of them
Contains(rep, t) ==
    \/ rep.narrative = t
    \/ rep.narrative.echo /\ \E i \in 1..Len(summary_prompt) : summary_prompt[i] = t

C8_StagesInSequence ==
    mode = "legal" =>
        LET risk == CallsOf("risk_matrix")
            roadmap == CallsOf("compliance_roadmap")
            summary == CallsOf("executive_summary")
            stages == StageCalls
            research == ResearchCalls
        IN
        /\ Cardinality(risk) =
               (IF pc \in {"risk_done", "roadmap_done", "summary_done", "returned"}
                THEN 1 ELSE 0)
        /\ Cardinality(roadmap) =
               (IF pc \in {"roadmap_done", "summary_done", "returned"} THEN 1 ELSE 0)
        /\ Cardinality(summary) =
               (IF pc \in {"summary_done", "returned"} THEN 1 ELSE 0)
        /\ \A i \in roadmap : \E j \in risk : j < i
        /\ \A i \in summary : \E j \in roadmap : j < i
        /\ \A i \in stages : \A j \in research : j < i
        /\ stages # {} =>
               \A w \in {"federal_query", "state_query", "reg_query", "intl_query"} :
                   CallsOf(w) # {}
        /\ summary # {} =>
               /\ Len(summary_prompt) = 2
               /\ summary_prompt[1] = risk_matrix
               /\ summary_prompt[2] = compliance_roadmap

C8_Witness ==
    /\ mode = "legal" /\ pc = "returned"
    /\ \A name \in StageNames : CallsOf(name) # {}
    /\ CallsTo("courtlistener") # {} /\ CallsTo("serpapi") # {}

-----------------------------------------------------------------------------
(* Properties of MarketingAgent *)

\* the request of a search or the parsing of its answer raises
SearchRaises(r) ==
    \/ r.kind = "raise"
    \/ r.kind = "ok" /\ \E i \in 1..Len(r.items) : r.items[i].bad

\* C1: a web-search adapter call (_search_data_source, fetch_market_data)
\* whose request or answer parsing raises does not raise past its boundary
\* and returns a sequence containing exactly one error item.
C1_FailureGivesOneErrorItem ==
    /\ mode \in {"search", "async"} => ~raised
    /\ (mode = "search" /\ pc = "returned" /\ SearchRaises(answer)) =>
           /\ Cardinality(Errors(search_result)) = 1
           /\ IsError(search_result[Len(search_result)])
    /\ mode = "async" =>
           \A q \in Queries :
               (task[q] = "done" /\ serpapi_key /\ resp[q].kind = "raise") =>
                   /\ Len(results[q]) = 1
                   /\ IsError(results[q][1])

C1_Witness ==
    /\ mode = "search" /\ pc = "returned" /\ SearchRaises(answer)
    /\ Evidence(search_result) # {}

\* C3 (as stated): whatever subset of the three fetch_market_data calls fails,
\* async_market_research returns and its result contains the evidence items
\* of every call that succeeded.
C3_PartialResults ==
    (mode = "async" /\ pc = "returned" /\ session = "open" /\ serpapi_key) =>
        \A q \in Queries :
            resp[q].kind = "ok" =>
                /\ \A k \in 1..Min(resp[q].n, TopPerQuery) :
                       \E e \in Evidence(market_data) :
                           market_data[e].query = q /\ market_data[e].n = k
                /\ Cardinality(Errors(market_data)) <=
                       Cardinality({p \in Queries : resp[p].kind = "raise"})

Score(it) == IF IsError(it) THEN 0 ELSE it.relevance_score

SortedByRelevance(s) ==
    \A i, j \in Evidence(s) : i < j => Score(s[i]) >= Score(s[j])

\* C4 (as stated): the evidence sequence handed to synthesis (the market_data
\* built by get_tam_sam_som_analysis, the list returned by
\* async_market_research) is sorted by relevance_score descending.
C4_SortedByRelevance ==
    /\ (mode = "report" /\ pc \notin {"start", "industry_done", "raised"}) =>
           SortedByRelevance(all_research_data["market_analysis"])
    /\ (mode = "async" /\ pc = "returned") => SortedByRelevance(market_data)

\* what async_market_research returns for given provider answers
ExpectedMarketData ==
    Flatten([q \in Queries |->
                Take(IF serpapi_key THEN fetch_market_data(q, resp[q])
                     ELSE fetch_market_data_NoKey, TopPerQuery)])

\* C5: for fixed provider answers the order of the items returned by
\* async_market_research is the same for every completion order of the three
\* concurrent requests.
C5_OrderIndependentOfCompletion ==
    (mode = "async" /\ pc = "returned" /\ session = "open") =>
        market_data = ExpectedMarketData

C5_Witness ==
    /\ mode = "async" /\ pc = "returned"
    /\ completed = <<3, 1, 2>>
    /\ results[1] # results[2] /\ results[2] # results[3]
    /\ results[1] # results[3]

\* C9 (as stated): whatever the external provider and generation calls do
\* (including a generation answer whose JSON lacks expected fields),
\* generate_comprehensive_report and legal_agent do not raise.
C9_NeverRaises == mode \in {"report", "legal"} => ~raised

\* C10 (as stated): without SERPAPI_KEY no request is sent to the web-search
\* provider and the adapters contribute neither an error item nor an
\* exception: legal state-court, industry-compliance and international
\* searches, and async_market_research / fetch_market_data.
C10_NoKeyNoOp ==
    ~serpapi_key =>
        /\ CallsTo("serpapi") = {}
        /\ mode = "legal" =>
               /\ \A k \in Errors(case_research) :
                      case_research[k].source = "Federal case search failed"
               /\ \A k \in Errors(regulatory_intel) :
                      regulatory_intel[k].source = "Regulatory search failed"
               /\ international_considerations = <<>>
        /\ (mode = "async" /\ session = "open") =>
               /\ market_data = <<>>
               /\ \A q \in Queries : results[q] = <<>>

\* C11 (as stated): the session acquired by create_session during a run is
\* released on every exit path: once async_market_research has returned, the
\* agent holds no open session.
C11_SessionReleased ==
    (mode = "async" /\ pc = "returned") => session # "open"

\* C12 (as stated): every external call carries its own timeout and a call
\* that times out is handled like any other failure of that call, so a run in
\* which a provider never answers is never left waiting for that answer: it
\* goes on and returns a report.
C12_UnansweredCallTimesOut == pc # "blocked"

\* C19 (as stated): a CourtListener result that lacks a field (here
\* absolute_url) still yields an evidence item, and the federal search is not
\* turned into an error by it.
C19_MissingFieldDefaults ==
    (mode = "legal" /\ pc \notin {"start", "blocked"}) =>
        /\ \A i \in {j \in CallsOf("federal") : calls[j].res = "nourl"} :
               \A k \in 1..Min(calls[i].n, FederalResultCap) :
                   \E e \in Evidence(case_research) :
                       case_research[e] = Item("Federal Courts", calls[i].q, k)
        /\ (\A i \in CallsOf("federal") : calls[i].res # "raise") =>
               \A k \in Errors(case_research) :
                   case_research[k].source # "Federal case search failed"

\* the list of a topic of research_data
TopicList(topic) ==
    CASE topic = "case_law" -> case_research
      [] topic = "regulatory" -> regulatory_intel
      [] topic = "international" -> international_considerations

LegalTopics == {"case_law", "regulatory", "international"}

\* the entries of the citations section under a topic's header
CitedEntries(topic) ==
    {i \in 1..Len(report.citations) :
        report.citations[i].line = "entry" /\ report.citations[i].topic = topic}

\* C13 (as stated): the citations section lists for each topic at most 5
\* evidence items and no error item, and exactly 5 for a topic that has at
\* least 5 evidence items, wherever the error items sit in its sequence.
C13_CitesFiveEvidence ==
    (mode \in {"legal", "citations"} /\ pc \in {"returned", "again"}) =>
        \A topic \in LegalTopics :
            /\ \A i \in CitedEntries(topic) : ~IsError(report.citations[i].item)
            /\ Cardinality(CitedEntries(topic)) <= CitationCap
            /\ Cardinality(Evidence(TopicList(topic))) >= CitationCap =>
                   Cardinality(CitedEntries(topic)) = CitationCap

\* the organic results of the answer that _search_data_source scores before
\* it returns or fails
ScoredResults ==
    {k \in 1..Len(answer.items) : \A j \in 1..k : ~answer.items[j].bad}

\* C14: every evidence item returned by _search_data_source or
\* fetch_market_data has relevance_score > 3, and a provider result scoring 3
\* or less is not among the returned items.
C14_OnlyAboveThreshold ==
    /\ (mode = "search" /\ pc = "returned") =>
           /\ \A i \in Evidence(search_result) :
                  search_result[i].relevance_score > 3
           /\ \A k \in ScoredResults :
                  calculate_relevance(answer.items[k], source_type) <= 3 =>
                      \A i \in Evidence(search_result) :
                          ~(/\ search_result[i].source = source_type
                            /\ search_result[i].n = answer.items[k].id)
    /\ mode = "async" =>
           \A q \in Queries : \A i \in Evidence(results[q]) :
               results[q][i].relevance_score > 3
    /\ mode = "report" =>
           \A t \in Topics : \A i \in Evidence(all_research_data[t]) :
               all_research_data[t][i].relevance_score > 3

C14_Witness ==
    /\ mode = "search" /\ pc = "returned"
    /\ \E k \in ScoredResults :
           calculate_relevance(answer.items[k], source_type) = 3
    /\ \E k \in ScoredResults :
           /\ calculate_relevance(answer.items[k], source_type) = 4
           /\ \E i \in Evidence(search_result) :
                  search_result[i].n = answer.items[k].id
    /\ Len(search_result) = 1

\* "The market size is projected at $5 billion with 12% CAGR" with the title
\* "Industry Report 2024", and the same snippet with the title "McKinsey"
MarketSizeText ==
    Result(0, {"market size", "projected", "billion", "cagr", "industry",
               "report"}, TRUE, FALSE)
MarketSizeSnippet ==
    Result(0, {"market size", "projected", "billion", "cagr"}, FALSE, FALSE)
\* "A generic report about industry trends" with the title "Report" or
\* "Unknown"
GenericText == Result(0, {"report", "industry"}, FALSE, FALSE)

\* C15: _calculate_relevance returns, for the same arguments, the same
\* integer; it is 3 per high-value, 2 per medium-value and 1 per low-value
\* indicator present, times a provider weight >= 1.0 truncated to an
\* integer, plus 1 when a recent year occurs; it is never negative; and the
\* market-size text scored for McKinsey scores more than the generic text
\* scored for an unknown provider (in either order of title and provider).
C15_RelevanceFormula ==
    (mode = "score" /\ pc \in {"returned", "again"}) =>
        LET h == Cardinality(content.words \cap HighValue)
            m == Cardinality(content.words \cap MediumValue)
            l == Cardinality(content.words \cap LowValue)
            w10 == Weight10(source_type)
        IN  /\ w10 >= 10
            /\ relevance = ((3 * h + 2 * m + l) * w10) \div 10
                               + (IF content.recent THEN 1 ELSE 0)
            /\ relevance >= 0
            /\ pc = "again" => again = relevance
            /\ (content = MarketSizeText /\ source_type = "McKinsey") =>
                   relevance = 21
            /\ (content = MarketSizeSnippet
                    /\ source_type = "Industry Report 2024") => relevance = 10
            /\ (content = GenericText /\ source_type \in {"Unknown", "Report"})
                   => relevance = 2

C15_Witness ==
    /\ mode = "score" /\ pc = "again"
    /\ content = MarketSizeText /\ source_type = "McKinsey"
    /\ relevance = 21

\* C16 (as stated): the report carries per-topic source counts and a total
\* equal to their sum, and the count recorded for a topic is the number of
\* evidence items of that topic, also when its sequence holds error items.
C16_CountsRoundTrip ==
    (mode = "report" /\ pc \in {"formatted", "again"}) =>
        /\ formatted.breakdown = final_report.data_sources_analyzed
        /\ formatted.total_sources =
               formatted.breakdown["market_analysis"]
                   + formatted.breakdown["competitive_intelligence"]
                   + formatted.breakdown["macro_trends"]
                   + formatted.breakdown["funding_analysis"]
                   + formatted.breakdown["regulatory_analysis"]
        /\ \A t \in Topics :
               formatted.breakdown[t] =
                   Cardinality(Evidence(all_research_data[t]))

\* C17: assembling the report makes no provider or generation call and is
\* a function of its inputs: the citations block of legal_agent and the
\* formatting of marketing_agent, applied twice to the same final text,
\* research and metadata while the clock advances, give the same text, whose
\* only time value is the timestamp recorded in the metadata.
C17_AssemblyDeterministic ==
    /\ (mode = "citations" /\ pc = "again") => again = report /\ calls = <<>>
    /\ (mode = "legal" /\ pc = "returned") =>
           calls[Len(calls)].what = "executive_summary"
    /\ (mode = "report" /\ pc \in {"formatted", "again"}) =>
           /\ formatted.analysis_date = final_report.analysis_date
           /\ calls[Len(calls)].what \in {"executive_summary",
                                           "comprehensive_analysis"}
           /\ Len(calls) = 1
    /\ (mode = "report" /\ pc = "again") => again = formatted

C17_Witness ==
    /\ mode = "report" /\ pc = "again"
    /\ now > formatted.analysis_date
    /\ formatted.total_sources > 0
    /\ ~formatted.body.err

\* a plan with no topic, or with a topic that has no adapter
MalformedPlan(plan) ==
    DOMAIN plan = {} \/ \E t \in DOMAIN plan : plan[t] = {}

\* C18 (as stated): evidence gathering fails, returning no partial bundle,
\* when the topic plan is empty or a topic has no adapter, and in no other
\* case.
C18_GatheringFailsOnlyOnMalformedPlan ==
    /\ mode = "legal" => (raised <=> MalformedPlan(LegalPlan))
    /\ mode = "report" =>
           /\ raised <=> MalformedPlan(MarketingPlan)
           /\ raised => final_report = NoFinalReport

\* C20 (as stated): for every response text, identify_industry_and_
\* consultancies and _extract_json_from_response do not raise and return
\* either the JSON object embedded in the text or the fixed default record.
C20_TolerantExtraction ==
    /\ mode = "extract" =>
           /\ ~raised
           /\ pc = "returned" => extracted \in {"object", "default"}
    /\ (mode = "report" /\ pc = "industry_done") =>
           /\ ~raised
           /\ industry_data \in
                  {identify_industry_and_consultancies(a) : a \in IndustryAnswers}

\* C21: during the fan-out of async_market_research the number of provider
\* requests in flight at the same time never exceeds the three templated
\* queries, and no more than three requests are issued in all.
InFlight == {q \in DOMAIN task : task[q] = "inflight"}

C21_InFlightBounded ==
    mode = "async" =>
        /\ Cardinality(InFlight) <= NumQueries
        /\ Cardinality(CallsOf("market")) <= NumQueries

C21_Witness ==
    /\ mode = "async" /\ pc = "gathering"
    /\ Cardinality(InFlight) = NumQueries

\* C22 (as stated): over any sequence of agent constructions an entry of the
\* cache file is never regenerated, modified or removed: every entry in the
\* file stays in it, unchanged, at every step.
C22_CachedEntriesKept ==
    [][mode = "cache" => cache_file.entries \subseteq cache_file'.entries]_vars

\* C23: get_comprehensive_case_research issues at most 5 federal case-law
\* requests and keeps at most 5 results of each, however many terms the
\* generation response holds and however many results an answer lists.
FederalKept(q) ==
    {k \in Evidence(case_research) :
        /\ case_research[k].source = "Federal Courts"
        /\ case_research[k].query = q}

C23_FanOutTruncated ==
    (mode = "federal" /\ pc = "returned") =>
        /\ Cardinality(CallsTo("courtlistener")) <= FederalQueryCap
        /\ \A i \in CallsTo("courtlistener") :
               Cardinality(FederalKept(calls[i].q)) <= FederalResultCap

C23_Witness ==
    /\ mode = "federal" /\ pc = "returned"
    /\ federal_query > FederalQueryCap
    /\ Cardinality(CallsTo("courtlistener")) = FederalQueryCap
    /\ \E i \in CallsTo("courtlistener") :
           /\ calls[i].n > FederalResultCap
           /\ Cardinality(FederalKept(calls[i].q)) = FederalResultCap

\* C24: during the fan-out no fetch_market_data task writes to market_data:
\* while a task has not returned the list is as it was before the fan-out
\* (empty), each task that returned holds the list built from its own query
\* and answer, and the list is extended only once every task has returned.
C24_OrchestratorOwnsMarketData ==
    mode = "async" =>
        /\ pc = "gathering" => market_data = <<>>
        /\ (\E q \in DOMAIN task : task[q] # "done") =>
               (market_data = <<>> \/ \A q \in DOMAIN task : task[q] = "new")
        /\ \A q \in DOMAIN task :
               /\ task[q] = "done" =>
                      results[q] = (IF serpapi_key
                                    THEN fetch_market_data(q, resp[q])
                                    ELSE fetch_market_data_NoKey)
               /\ task[q] # "done" => results[q] = <<>>

C24_Witness ==
    /\ mode = "async" /\ pc = "returned"
    /\ Len(completed) = NumQueries /\ completed[1] # 1
    /\ market_data # <<>>

\* C25: on every path of the worker final_result is written before
\* analysis_complete is set, so whenever the flag is set the result is there;
\* the display thread gets past the join only once the worker thread has
\* ended, and then always finds a result to display.
C25_ResultBeforeFlag ==
    mode = "ui" =>
        /\ analysis_complete => final_result # "unset"
        /\ pc \in {"joined", "cleared", "final_shown", "done"} =>
               worker = "exited" /\ final_result # "unset"
        /\ pc # "done"

C25_Witness ==
    /\ mode = "ui" /\ pc = "join"
    /\ analysis_complete /\ worker = "raised"
    /\ final_result = "Analysis failed"

\* C26: whenever the analysis call in the worker thread returns or raises,
\* display_streaming_results eventually terminates.
C26_DisplayTerminates ==
    (mode = "ui" /\ worker \in {"returned", "raised"})
        ~> (pc \in {"final_shown", "done"})

C26_Witness ==
    /\ mode = "ui" /\ pc = "final_shown"
    /\ worker = "exited" /\ final_result = "result"

\* C27 (as stated): every progress message put on the queue before the
\* analysis completes has been shown, in the order it was put, once the
\* polling loop has exited: none is left in the queue.
C27_AllMessagesShown ==
    (mode = "ui" /\ pc \notin {"start", "loop"}) =>
        /\ progress_queue = <<>>
        /\ shown = [i \in 1..Len(shown) |-> i]

\* C28 (as stated): for every interleaving of create_session and
\* close_session calls on one agent, create_session never returns a session
\* on which close has already been started, and at most one session is open
\* at any time.
C28_SessionNeverStale ==
    mode = "session" =>
        /\ \A i \in 1..Len(handed) : handed[i].state = "open"
        /\ Cardinality({i \in SessionIds : sessions[i] = "open"}) <= 1

\* C29: generate_comprehensive_report generates exactly one of
\* executive_summary and comprehensive_analysis, with one generation call,
\* and sets the other to the marker 'NA'; marketing_agent puts the generated
\* one into the formatted report, whose narrative is never the marker.
NarrativeCalls == CallsOf("executive_summary") \cup CallsOf("comprehensive_analysis")

C29_NarrativeNeverNA ==
    (mode = "report" /\ pc \in {"returned", "formatted", "again"}) =>
        /\ (final_report.executive_summary = NA)
               # (final_report.comprehensive_analysis = NA)
        /\ Cardinality(NarrativeCalls) = 1
        /\ pc \in {"formatted", "again"} =>
               /\ formatted.body # NA
               /\ formatted.body \in {final_report.executive_summary,
                                       final_report.comprehensive_analysis}

C29_Witness ==
    /\ mode = "report" /\ pc = "formatted"
    /\ brief_detailed
    /\ final_report.executive_summary = NA
    /\ formatted.body = GenText("comprehensive_analysis", FALSE)

\* C30 (as stated): parse_analysis_sections loses no content: the contents
\* of the returned sections, joined in order, are the non-header lines of
\* the input in order, also when two headers carry the same title.
RECURSIVE PlainLines(_)
PlainLines(ls) ==
    IF ls = <<>> THEN <<>>
    ELSE IF Head(ls).header THEN PlainLines(Tail(ls))
    ELSE <<Head(ls).line>> \o PlainLines(Tail(ls))

C30_NoContentLost ==
    (mode = "parse" /\ pc = "returned") =>
        Flatten([i \in 1..Len(sections) |-> sections[i].content])
            = PlainLines(output)

====
